---- MODULE Spec2Model ----
(***************************************************************************)
(* A model of the thread-local dispatch engine of nuts (src/src/nut.rs,    *)
(* src/src/nut/activity.rs).                                               *)
(*                                                                         *)
(* The state is the Nut struct (nut.rs:35-61): the activity container, the *)
(* domain table, the subscriptions, the FIFO of deferred events, the       *)
(* response tracker, the executing flag and the inchoate (staging)         *)
(* activity container.  User code runs either at top level (pc = "idle")   *)
(* or inside a handler the engine has dispatched (pc = "handler"); every   *)
(* library call is one action whose branches are the branches of its code. *)
(*                                                                         *)
(* The bodies of Nut::publish, Nut::set_status, the drain of the deferred  *)
(* events, the inchoate container, ManagedState, Subscriptions, the        *)
(* response tracker and ActivityContainer::delete live in exec.rs, iac/*   *)
(* and are not among the source files; they are modelled from spec.md,     *)
(* except where nut.rs documents them: the FIFO holds "published messages  *)
(* and other events that cannot be processed immediately" (nut.rs:47-49),  *)
(* and during a broadcast activities and managed_state are mutably         *)
(* borrowed by the handler being dispatched (nut.rs:36-41, 56-58, 65), so  *)
(* a publish issued by a handler cannot dispatch in place: it is queued.   *)
(***************************************************************************)
EXTENDS Integers, Sequences, FiniteSets, TLC

(* ------------------------------ bounds -------------------------------- *)
\* library calls made by the user code in one behaviour, per specification
MaxDefer == 6
MaxOrder == 5
MaxIndex == 6
MaxAwait == 6
MaxCalls == 4
MaxHook == 6
MaxNoop == 6
MaxLife == 6
MaxDomain == 6
MaxStage == 5

(* ------------------------------ inputs -------------------------------- *)
Topics    == {"M", "N"}                 \* Topic::message::<MSG>() of two message types
Lifecycle == {"Enter", "Leave"}         \* Topic::enter(), Topic::leave()
Payloads  == {"a", "b"}                 \* activity payloads
Domains   == {0, 1}                     \* DomainId indices
Types     == {"T", "U"}                 \* TypeId of the stored domain values
Values    == {"v1", "v2"}              \* values written to a domain, carried by a reply
Filters   == {"ActiveOnly", "Always", "InactiveOnly"}

None      == "None"                     \* Option::None of a slot / an absent bag value
NoEvent   == [kind |-> "NoEvent"]
NoSnap    == [kind |-> "NoSnap"]
NoCall    == [id |-> 0, domained |-> FALSE, result |-> "None", at |-> 0]

VARIABLES
    pc,           \* "idle" | "drain" | "loop" | "handler" | "hook" | "panic" | "impossible"
    executing,    \* Nut::executing
    data,         \* Nut::activities.data : Seq(Payloads \cup {None})
    active,       \* Nut::activities.active : Seq(BOOLEAN)
    inch_data,    \* Nut::inchoate_activities.activities.data
    inch_active,  \* Nut::inchoate_activities.activities.active
    inch_offset,  \* Nut::inchoate_activities.offset
    domains,      \* Nut::managed_state : Seq of bags, bag = [Types -> Values \cup {None}]
    subs,         \* Nut::subscriptions : topic -> ActivityHandlerContainer
    deferred,     \* Nut::deferred_events
    on_delete,    \* hooks registered with add_on_delete : set of activity indices
    tracker,      \* Nut::response_tracker : request id -> "Pending" | value
    next_ticket,  \* next request id the tracker allocates
    cur,          \* the broadcast being dispatched
    todo,         \* keys of the handler container not yet iterated
    rest,         \* handlers of the key being iterated not yet visited
    \* ---- history (not program state) ----
    nreq,         \* number of requests (events and registrations) made so far
    last_applied, \* request number of the deferred event applied last
    issued,       \* indices returned by new_activity, in call order
    created,      \* payloads handed to new_activity, in call order
    fired,        \* handlers invoked by the current broadcast, in order
    wanted,       \* value of the most recently requested write, per domain and type
    hook_log,     \* on-delete hook invocations: <<index, payload>>
    resolved,     \* request id -> what the awaiting call resolved with
    replied,      \* replies published: <<request id, value>>
    reg_log,      \* registrations requested, in request order: [topic, h]
    staged_ids,   \* indices new_activity returned from the staging path
    activated,    \* activities set_status has moved from inactive to active
    skipped,      \* activities a filter has kept a message from
    del_log,      \* deletions of a live activity: [id, hook, at]
    abandoned,    \* request ids whose awaiting context was abandoned
    rod_last,     \* the register_on_delete call made last: [id, domained, result, at]
    pub_snap,     \* the engine as a publish made at top level found it
    created_active, \* initial status handed to new_activity, in call order
    overwritten,  \* <<domain, type, deferred>> of the writes that replaced a stored value
    calls         \* library calls made so far (bounds the exploration)

vars == <<pc, executing, data, active, inch_data, inch_active, inch_offset, domains,
          subs, deferred, on_delete, tracker, next_ticket, cur, todo, rest,
          nreq, last_applied, issued, created, fired, wanted, hook_log, resolved, replied, reg_log,
          staged_ids, activated, skipped, del_log, abandoned, rod_last, pub_snap,
          created_active, overwritten, calls>>

engine == <<data, active, inch_data, inch_active, inch_offset, domains, subs>>
hist   == <<issued, created, wanted, hook_log, resolved, reg_log, staged_ids>>
disp   == <<cur, todo, rest, fired>>
hist2  == <<activated, skipped, del_log, abandoned>>
hist3  == <<rod_last, pub_snap, created_active, overwritten>>

AllTopics == Topics \cup Lifecycle \cup {"Reply"}
EmptyBag  == [ty \in Types |-> None]


(* ------------------------- pure helpers -------------------------------- *)

Range(q) == {q[j] : j \in 1..Len(q)}

\* SubscriptionFilter (spec.md section 3): evaluated against the active flag
FilterPasses(f, act) ==
    CASE f = "ActiveOnly"   -> act
      [] f = "Always"       -> TRUE
      [] f = "InactiveOnly" -> ~act

\* ManagedState::prepare (called at nut.rs:108, 301): grows the table so the
\* domain exists with an empty bag
RECURSIVE prepare(_, _)
prepare(ms, d) == IF Len(ms) > d THEN ms ELSE prepare(Append(ms, EmptyBag), d)

\* DomainState::store (called at nut.rs:303): inserts or overwrites the slot of the type
store_if_absent(ms, d, ty, v) ==
    IF ms[d + 1][ty] = None THEN [ms EXCEPT ![d + 1] = [@ EXCEPT ![ty] = v]] ELSE ms
store(ms, d, ty, v) == [ms EXCEPT ![d + 1] = [@ EXCEPT ![ty] = v]]

\* DomainState read of a type: None when the domain or the value is absent
read(ms, d, ty) == IF Len(ms) > d THEN ms[d + 1][ty] ELSE None

\* ActivityContainer::add (activity.rs:150-160): the index is the length before the push
add_index_reuse(d) ==
    IF \E j \in 1..Len(d) : d[j] = None
        THEN (CHOOSE j \in 1..Len(d) : d[j] = None) - 1
        ELSE Len(d)
add_index(d) == Len(d)
add_data(d, p) == Append(d, p)
add_active(a, s) == Append(a, s)

\* ActivityContainer::is_active (activity.rs:161-163), 0-based index
is_active_first(a, i) == a[1]
is_active(a, i) == a[i + 1]

\* ActivityContainer::set_active (activity.rs:164-166)
set_active(a, i, s) == [a EXCEPT ![i + 1] = s]

\* Index / IndexMut for ActivityContainer (activity.rs:169-185): the payload of a
\* slot, or the panic "Missing activity" when the slot is empty
index_unchecked(d, i) == d[i + 1]
index(d, i) == IF d[i + 1] = None THEN "Missing activity" ELSE d[i + 1]

\* IndexMut for ActivityHandlerContainer (activity.rs:201-205) followed by the push
\* of Subscriptions::force_push_closure (called at nut.rs:73): the handler is
\* appended to the Vec of its activity, which is created on first use
push_handler_front(c, h) ==
    IF h.id \in DOMAIN c
        THEN [c EXCEPT ![h.id] = <<h>> \o @]
        ELSE [j \in DOMAIN c \cup {h.id} |-> IF j = h.id THEN <<h>> ELSE c[j]]

push_handler(c, h) ==
    IF h.id \in DOMAIN c
        THEN [c EXCEPT ![h.id] = Append(@, h)]
        ELSE [j \in DOMAIN c \cup {h.id} |-> IF j = h.id THEN <<h>> ELSE c[j]]

force_push_closure(s, t, h) == [s EXCEPT ![t] = push_handler(@, h)]

\* ThreadLocalFifo::push / pop (nut.rs:47-49, called at 75, 120, 306)
fifo_push_front(q, e) == <<e>> \o q
fifo_push(q, e) == Append(q, e)
fifo_back(q) == q[Len(q)]
fifo_front(q) == Head(q)
fifo_pop(q) == Tail(q)

\* RefCell state of managed_state and activities as user code finds it: both are
\* mutably borrowed for the closure being dispatched (nut.rs:36-41, 56-58, 65) and
\* for the on-delete hook being run: the hooks are kept in the activity container
\* (nut.rs:259-261) and the domained ones are called with the ManagedState
\* (nut.rs:275)
borrowed_in_loop_only == pc = "loop"
managed_state_borrowed == pc \in {"loop", "handler", "hook"}
never_borrowed == FALSE
activities_borrowed == pc \in {"loop", "handler", "hook"}

\* inchoate_activities is borrowed inside new_activity (nut.rs:111-114, 121-124) and
\* by the flush only, never while user code runs
inchoate_borrowed == FALSE

\* InchoateActivityContainer::inc_offset (called at nut.rs:111-114)
inc_offset_forgotten(off) == off
inc_offset(off) == off + 1

\* the Result of try_borrow_mut()? on a RefCell (nut.rs:259-260, 282-283)
try_borrow_mut(borrowed) == IF borrowed THEN "Err" ELSE "Ok"

always_deferred == TRUE

\* the three deferral tests: push_closure and new_activity load the executing flag
\* (nut.rs:72, nut.rs:101), write_domain tries to borrow managed_state (nut.rs:300)
not_deferred == FALSE
push_closure_defers == executing
new_activity_defers == executing
write_domain_defers == managed_state_borrowed

\* user code runs at top level, inside a dispatched handler or inside an on-delete hook
UserCode == pc \in {"idle", "handler", "hook"}

Within(b) == calls < b
Called == calls' = calls + 1

(* ------------------------------ Init ----------------------------------- *)

Init ==
    /\ pc = "idle"
    /\ executing = FALSE
    /\ data = <<>> /\ active = <<>>
    /\ inch_data = <<>> /\ inch_active = <<>> /\ inch_offset = 0
    /\ domains = <<>>
    /\ subs = [t \in AllTopics |-> <<>>]
    /\ deferred = <<>>
    /\ on_delete = {}
    /\ tracker = <<>> /\ next_ticket = 0
    /\ cur = NoEvent /\ todo = {} /\ rest = <<>>
    /\ nreq = 0 /\ last_applied = 0
    /\ issued = <<>> /\ created = <<>>
    /\ fired = <<>>
    /\ wanted = [d \in Domains |-> EmptyBag]
    /\ hook_log = <<>>
    /\ resolved = <<>>
    /\ replied = {}
    /\ reg_log = <<>>
    /\ staged_ids = {}
    /\ activated = {} /\ skipped = {} /\ del_log = <<>> /\ abandoned = {}
    /\ rod_last = NoCall /\ pub_snap = NoSnap /\ created_active = <<>>
    /\ overwritten = {}
    /\ calls = 0

(* ------------------------ library calls -------------------------------- *)

\* Nut::push_closure (nut.rs:71-78) as called by register* (nut.rs:137-244)
Register(t, i, f) ==
    /\ UserCode
    /\ LET h == [id |-> i, filter |-> f, req |-> nreq + 1, late |-> push_closure_defers] IN
       IF ~push_closure_defers
          THEN /\ subs' = force_push_closure(subs, t, h)
               /\ UNCHANGED deferred
          ELSE /\ deferred' = fifo_push(deferred,
                     [kind |-> "Subscription", topic |-> t, h |-> h, n |-> nreq + 1])
               /\ UNCHANGED subs
    /\ nreq' = nreq + 1
    /\ reg_log' = Append(reg_log, [topic |-> t,
           h |-> [id |-> i, filter |-> f, req |-> nreq + 1, late |-> push_closure_defers]])
    /\ Called
    /\ UNCHANGED <<pc, executing, data, active, inch_data, inch_active, inch_offset,
                   domains, on_delete, tracker, next_ticket, disp, last_applied,
                   issued, created, wanted, hook_log, resolved, staged_ids, replied>>
    /\ UNCHANGED hist2
    /\ UNCHANGED hist3

\* new_activity (nut.rs:89-127)
NewActivity(p, d, s) ==
    /\ UserCode
    /\ IF ~new_activity_defers
          THEN IF managed_state_borrowed \/ inchoate_borrowed \/ activities_borrowed
                  THEN /\ pc' = "impossible"      \* expect(IMPOSSIBLE_ERR_MSG)
                       /\ UNCHANGED <<domains, inch_offset, data, active, issued, created,
                                      created_active, deferred, inch_data, inch_active,
                                      nreq, staged_ids>>
                  ELSE /\ domains' = prepare(domains, d)
                       /\ inch_offset' = inc_offset(inch_offset)
                       /\ data' = add_data(data, p)
                       /\ active' = add_active(active, s)
                       /\ issued' = Append(issued, add_index(data))
                       /\ created' = Append(created, p)
                       /\ created_active' = Append(created_active, s)
                       /\ UNCHANGED <<pc, deferred, inch_data, inch_active, nreq, staged_ids>>
          ELSE /\ deferred' = fifo_push(deferred,
                     [kind |-> "FlushInchoateActivities", n |-> nreq + 1])
               /\ inch_data' = add_data(inch_data, p)
               /\ inch_active' = add_active(inch_active, s)
               /\ issued' = Append(issued, add_index(inch_data) + inch_offset)
               /\ staged_ids' = staged_ids \cup {add_index(inch_data) + inch_offset}
               /\ nreq' = nreq + 1
               /\ created' = Append(created, p)
               /\ created_active' = Append(created_active, s)
               /\ UNCHANGED <<pc, domains, inch_offset, data, active>>
    /\ UNCHANGED <<executing, subs, on_delete, tracker, next_ticket, disp,
                   last_applied, wanted, hook_log, resolved, replied, reg_log>>
    /\ Called
    /\ UNCHANGED hist2
    /\ UNCHANGED <<rod_last, pub_snap, overwritten>>

\* write_domain (nut.rs:293-309)
WriteDomain(d, ty, v) ==
    /\ UserCode
    /\ IF ~write_domain_defers
          THEN /\ domains' = store(prepare(domains, d), d, ty, v)
               /\ UNCHANGED <<deferred, nreq>>
          ELSE /\ deferred' = fifo_push(deferred,
                     [kind |-> "DomainStore", d |-> d, ty |-> ty, v |-> v, n |-> nreq + 1])
               /\ nreq' = nreq + 1
               /\ UNCHANGED domains
    /\ wanted' = [wanted EXCEPT ![d] = [@ EXCEPT ![ty] = v]]
    /\ Called
    /\ UNCHANGED <<pc, executing, data, active, inch_data, inch_active, inch_offset,
                   subs, on_delete, tracker, next_ticket, disp, last_applied,
                   issued, created, hook_log, resolved, replied, reg_log, staged_ids>>
    /\ UNCHANGED hist2
    /\ overwritten' = IF ~write_domain_defers /\ read(domains, d, ty) \notin {None, v}
                         THEN overwritten \cup {<<d, ty, FALSE>>} ELSE overwritten
    /\ UNCHANGED <<rod_last, pub_snap, created_active>>

\* Nut::catch_up_deferred_to_quiescence: the caller that finds the engine idle
\* sets the flag and processes the queue; a caller inside a broadcast returns
catch_up ==
    IF executing
        THEN UNCHANGED <<pc, executing>>
        ELSE executing' = TRUE /\ pc' = "drain"

\* publish_custom (nut.rs:129-131) -> Nut::publish: the message is put on the
\* FIFO of deferred events (nut.rs:47-49) and the queue is processed
Publish(t) ==
    /\ UserCode
    /\ deferred' = fifo_push(deferred,
            [kind |-> "Broadcast", topic |-> t, n |-> nreq + 1, by |-> Len(fired)])
    /\ nreq' = nreq + 1
    /\ catch_up
    /\ Called
    /\ UNCHANGED <<engine, on_delete, tracker, next_ticket, disp, last_applied, hist,
                   replied>>
    /\ UNCHANGED hist2
    /\ pub_snap' = IF pc = "idle"
                      THEN [kind |-> "Snap", topic |-> t, data |-> data, active |-> active,
                            domains |-> domains, subs |-> subs, deferred |-> deferred,
                            executing |-> executing]
                      ELSE pub_snap
    /\ UNCHANGED <<rod_last, created_active, overwritten>>

\* set_status (nut.rs:289-291) -> Nut::set_status
SetStatus(i, s) ==
    /\ UserCode
    /\ deferred' = fifo_push(deferred,
            [kind |-> "LifecycleChange", id |-> i, status |-> s, n |-> nreq + 1,
             by |-> Len(fired)])
    /\ nreq' = nreq + 1
    /\ catch_up
    /\ Called
    /\ UNCHANGED <<engine, on_delete, tracker, next_ticket, disp, last_applied, hist,
                   replied>>
    /\ UNCHANGED hist2
    /\ UNCHANGED hist3


\* register_on_delete (nut.rs:246-264): try_borrow_mut()? returns the error when the
\* activity container is borrowed, and registers the hook otherwise
RegisterOnDelete(i) ==
    /\ UserCode
    /\ IF try_borrow_mut(activities_borrowed) = "Err"
          THEN UNCHANGED on_delete
          ELSE on_delete' = on_delete \cup {i}
    /\ rod_last' = [id |-> i, domained |-> FALSE,
                    result |-> try_borrow_mut(activities_borrowed), at |-> calls + 1]
    /\ Called
    /\ UNCHANGED <<pc, executing, engine, deferred, tracker, next_ticket, disp, nreq,
                   last_applied, hist, replied>>
    /\ UNCHANGED hist2
    /\ UNCHANGED <<pub_snap, created_active, overwritten>>

\* register_domained_on_delete (nut.rs:266-287): the same borrow of the activity
\* container, the hook is stored with add_domained_on_delete
RegisterDomainedOnDelete(i) ==
    /\ UserCode
    /\ IF try_borrow_mut(activities_borrowed) = "Err"
          THEN UNCHANGED on_delete
          ELSE on_delete' = on_delete \cup {i}
    /\ rod_last' = [id |-> i, domained |-> TRUE,
                    result |-> try_borrow_mut(activities_borrowed), at |-> calls + 1]
    /\ Called
    /\ UNCHANGED <<pc, executing, engine, deferred, tracker, next_ticket, disp, nreq,
                   last_applied, hist, replied>>
    /\ UNCHANGED hist2
    /\ UNCHANGED <<pub_snap, created_active, overwritten>>

\* ActivityContainer::delete (spec.md 4.1): the hook registered for the id, if any,
\* is invoked with the payload taken out of the slot, and the slot is left empty.
\* nut.rs has no entry point that deletes in place: a deletion is requested like a
\* status change (set_status, nut.rs:289-291), goes through the queue of deferred
\* events and is carried out by the drain, with the executing flag set.
delete_slot(d, i) == [d EXCEPT ![i + 1] = None]

Delete(i) ==
    /\ UserCode
    /\ deferred' = fifo_push(deferred,
            [kind |-> "RemoveActivity", id |-> i, n |-> nreq + 1, by |-> Len(fired)])
    /\ nreq' = nreq + 1
    /\ catch_up
    /\ Called
    /\ UNCHANGED <<engine, on_delete, tracker, next_ticket, disp, last_applied, hist,
                   replied>>
    /\ UNCHANGED hist2
    /\ UNCHANGED hist3

(* --------------------- request / response ------------------------------ *)

\* ResponseTracker::allocate (spec.md 4.5): a fresh request identifier
allocate(n) == n

\* publish_custom_and_await (nut.rs:133-135) -> Nut::publish_and_await: a Pending
\* entry is registered and the request is published through the dispatcher
PublishAndAwait(t) ==
    /\ UserCode
    /\ LET r == allocate(next_ticket) IN
       tracker' = [j \in DOMAIN tracker \cup {r} |-> IF j = r THEN "Pending" ELSE tracker[j]]
    /\ next_ticket' = next_ticket + 1
    /\ deferred' = fifo_push(deferred,
            [kind |-> "Broadcast", topic |-> t, n |-> nreq + 1, by |-> Len(fired)])
    /\ nreq' = nreq + 1
    /\ catch_up
    /\ Called
    /\ UNCHANGED <<engine, on_delete, disp, last_applied, hist, replied>>
    /\ UNCHANGED hist2
    /\ UNCHANGED hist3

\* a reply addressed to request r, published as an ordinary message (spec.md 4.5)
PublishReply(r, v) ==
    /\ UserCode
    /\ r < next_ticket
    /\ deferred' = fifo_push(deferred,
            [kind |-> "Reply", topic |-> "Reply", r |-> r, v |-> v, n |-> nreq + 1,
             by |-> Len(fired)])
    /\ nreq' = nreq + 1
    /\ replied' = replied \cup {<<r, v>>}
    /\ catch_up
    /\ Called
    /\ UNCHANGED <<engine, on_delete, tracker, next_ticket, disp, last_applied, hist>>
    /\ UNCHANGED hist2
    /\ UNCHANGED hist3

\* the tracker recognizes a reply addressed to an outstanding request and moves
\* the entry from Pending to Completed, storing the value (spec.md 4.5)
complete_any(tr, r, v) == [j \in DOMAIN tr \cup {r} |-> IF j = r THEN v ELSE tr[j]]
complete(tr, r, v) ==
    IF r \in DOMAIN tr /\ tr[r] = "Pending" THEN [tr EXCEPT ![r] = v] ELSE tr

remove(tr, r) == [j \in DOMAIN tr \ {r} |-> tr[j]]

\* publish_custom_and_await (nut.rs:133-135) awaits the response and drops what
\* it resolves to: the call itself yields the unit value
await_output_value(v) == v
await_output(v) == "unit"

\* NutsResponse polled by the awaiting context (with_response_tracker_mut,
\* nut.rs:79-86): a Completed entry resolves the future with the stored value
Poll(r) ==
    /\ pc = "idle"
    /\ r \in DOMAIN tracker
    /\ tracker[r] # "Pending"
    /\ resolved' = [j \in DOMAIN resolved \cup {r} |-> IF j = r THEN await_output(tracker[r])
                                                        ELSE resolved[j]]
    /\ tracker' = remove(tracker, r)
    /\ UNCHANGED <<pc, executing, engine, deferred, on_delete, next_ticket, disp, nreq,
                   last_applied, issued, created, wanted, hook_log, calls, replied, reg_log,
                   staged_ids>>
    /\ UNCHANGED hist2
    /\ UNCHANGED hist3

\* the awaiting context is abandoned: its entry is removed (spec.md 4.5)
Abandon(r) ==
    /\ pc = "idle"
    /\ r \in DOMAIN tracker
    /\ tracker' = remove(tracker, r)
    /\ UNCHANGED <<pc, executing, engine, deferred, on_delete, next_ticket, disp, nreq,
                   last_applied, hist, calls, replied>>
    /\ abandoned' = abandoned \cup {r}
    /\ UNCHANGED <<activated, skipped, del_log>>
    /\ UNCHANGED hist3

(* ------------------- processing the deferred events -------------------- *)

Front == fifo_front(deferred)

Popped ==
    /\ deferred' = fifo_pop(deferred)
    /\ last_applied' = Front.n

\* Deferred::Subscription (pushed at nut.rs:75-76)
ApplySubscription ==
    /\ pc = "drain" /\ deferred # <<>> /\ Front.kind = "Subscription"
    /\ subs' = force_push_closure(subs, Front.topic, Front.h)
    /\ Popped
    /\ UNCHANGED <<pc, executing, data, active, inch_data, inch_active, inch_offset,
                   domains, on_delete, tracker, next_ticket, disp, nreq, hist, calls, replied>>
    /\ UNCHANGED hist2
    /\ UNCHANGED hist3

\* Deferred::DomainStore (pushed at nut.rs:305-306)
ApplyDomainStore ==
    /\ pc = "drain" /\ deferred # <<>> /\ Front.kind = "DomainStore"
    /\ domains' = store(prepare(domains, Front.d), Front.d, Front.ty, Front.v)
    /\ Popped
    /\ UNCHANGED <<pc, executing, data, active, inch_data, inch_active, inch_offset,
                   subs, on_delete, tracker, next_ticket, disp, nreq, hist, calls, replied>>
    /\ UNCHANGED hist2
    /\ overwritten' = IF read(domains, Front.d, Front.ty) \notin {None, Front.v}
                         THEN overwritten \cup {<<Front.d, Front.ty, TRUE>>} ELSE overwritten
    /\ UNCHANGED <<rod_last, pub_snap, created_active>>

\* Deferred::FlushInchoateActivities (pushed at nut.rs:120): the staged activities
\* are appended to the main container and the offset moves past them
flush_data(d, staged) == d \o staged
flush_offset(off, staged) == off + Len(staged)

ApplyFlush ==
    /\ pc = "drain" /\ deferred # <<>> /\ Front.kind = "FlushInchoateActivities"
    /\ data' = flush_data(data, inch_data)
    /\ active' = flush_data(active, inch_active)
    /\ inch_offset' = flush_offset(inch_offset, inch_data)
    /\ inch_data' = <<>> /\ inch_active' = <<>>
    /\ Popped
    /\ UNCHANGED <<pc, executing, domains, subs, on_delete, tracker, next_ticket, disp,
                   nreq, hist, calls, replied>>
    /\ UNCHANGED hist2
    /\ UNCHANGED hist3

\* keys of the handlers a broadcast visits: ActivityHandlerContainer::iter
\* (activity.rs:188-190) visits every key, iter_for (191-193) only the given one
iter_keys(c) == DOMAIN c
iter_for_all(c, i) == DOMAIN c
iter_for_keys(c, i) == DOMAIN c \cap {i}

\* a published message leaves the queue: its handlers are dispatched
StartBroadcast ==
    /\ pc = "drain" /\ deferred # <<>> /\ Front.kind = "Broadcast"
    /\ cur' = Front
    /\ todo' = iter_keys(subs[Front.topic])
    /\ rest' = <<>> /\ fired' = <<>>
    /\ pc' = "loop"
    /\ Popped
    /\ UNCHANGED <<executing, engine, on_delete, tracker, next_ticket, nreq, hist, calls,
                   replied>>
    /\ UNCHANGED hist2
    /\ UNCHANGED hist3

\* a reply leaves the queue: the tracker completes the request it is addressed to
StartReply ==
    /\ pc = "drain" /\ deferred # <<>> /\ Front.kind = "Reply"
    /\ tracker' = complete(tracker, Front.r, Front.v)
    /\ cur' = Front
    /\ todo' = iter_keys(subs[Front.topic])
    /\ rest' = <<>> /\ fired' = <<>>
    /\ pc' = "loop"
    /\ Popped
    /\ UNCHANGED <<executing, engine, on_delete, next_ticket, nreq, hist, calls, replied>>
    /\ UNCHANGED hist2
    /\ UNCHANGED hist3

\* Nut::set_status (spec.md 4.1, 4.4): a change of the flag is stored and the
\* Enter / Leave handlers of that activity are dispatched; no change, no dispatch
ApplyLifecycle ==
    /\ pc = "drain" /\ deferred # <<>> /\ Front.kind = "LifecycleChange"
    /\ Front.id < Len(active)
    /\ IF is_active(active, Front.id) # Front.status
          THEN /\ active' = set_active(active, Front.id, Front.status)
               /\ cur' = [kind |-> "Broadcast",
                          topic |-> IF Front.status THEN "Enter" ELSE "Leave",
                          n |-> Front.n, by |-> Front.by, id |-> Front.id]
               /\ todo' = iter_for_keys(subs[IF Front.status THEN "Enter" ELSE "Leave"],
                                        Front.id)
               /\ rest' = <<>> /\ fired' = <<>>
               /\ pc' = "loop"
          ELSE UNCHANGED <<active, pc, disp>>
    /\ Popped
    /\ UNCHANGED <<executing, data, inch_data, inch_active, inch_offset, domains, subs,
                   on_delete, tracker, next_ticket, nreq, hist, calls, replied>>
    /\ activated' = IF ~is_active(active, Front.id) /\ Front.status
                       THEN activated \cup {Front.id} ELSE activated
    /\ UNCHANGED <<skipped, del_log, abandoned>>
    /\ UNCHANGED hist3

\* a requested deletion leaves the queue: ActivityContainer::delete
ApplyDelete ==
    /\ pc = "drain" /\ deferred # <<>> /\ Front.kind = "RemoveActivity"
    /\ Front.id < Len(data)
    /\ IF data[Front.id + 1] # None
          THEN /\ data' = delete_slot(data, Front.id)
               /\ del_log' = Append(del_log, [id |-> Front.id, hook |-> Front.id \in on_delete,
                                              at |-> Len(issued)])
               /\ IF Front.id \in on_delete
                     THEN /\ hook_log' = Append(hook_log, <<Front.id, data[Front.id + 1]>>)
                          /\ on_delete' = on_delete \ {Front.id}
                          /\ pc' = "hook"
                     ELSE UNCHANGED <<hook_log, on_delete, pc>>
          ELSE UNCHANGED <<data, del_log, hook_log, on_delete, pc>>
    /\ Popped
    /\ UNCHANGED <<executing, active, inch_data, inch_active, inch_offset, domains, subs,
                   tracker, next_ticket, disp, nreq, issued, created, wanted, resolved,
                   reg_log, staged_ids, calls, replied>>
    /\ UNCHANGED <<activated, skipped, abandoned>>
    /\ UNCHANGED hist3

\* the on-delete hook returns to the drain
HookReturn ==
    /\ pc = "hook"
    /\ pc' = "drain"
    /\ UNCHANGED <<executing, engine, deferred, on_delete, tracker, next_ticket, disp,
                   nreq, last_applied, hist, calls, replied>>
    /\ UNCHANGED hist2
    /\ UNCHANGED hist3

\* the queue is empty: the engine returns to idle
DrainDone ==
    /\ pc = "drain" /\ deferred = <<>>
    /\ executing' = FALSE
    /\ pc' = "idle"
    /\ UNCHANGED <<engine, deferred, on_delete, tracker, next_ticket, disp, nreq,
                   last_applied, hist, calls, replied>>
    /\ UNCHANGED hist2
    /\ pub_snap' = NoSnap
    /\ UNCHANGED <<rod_last, created_active, overwritten>>


(* ------------------------- the handler loop ---------------------------- *)

\* the handlers of one topic are stored per activity in a HashMap
\* (activity.rs:28-32) and iter() walks its values (activity.rs:188-190): any key
\* not yet visited may come next, and the Vec of a key is walked front to back
next_keys(keys) == keys

LoopPickKey ==
    /\ pc = "loop" /\ rest = <<>> /\ todo # {}
    /\ \E a \in next_keys(todo) :
          /\ rest' = subs[cur.topic][a]
          /\ todo' = todo \ {a}
    /\ UNCHANGED <<pc, executing, engine, deferred, on_delete, tracker, next_ticket, cur,
                   fired, nreq, last_applied, hist, calls, replied>>
    /\ UNCHANGED hist2
    /\ UNCHANGED hist3

\* the packed closure checks the filter against the active flag of its activity
\* (activity.rs:161-163) before it touches the activity
Passes(h) == FilterPasses(h.filter, is_active(active, h.id))

\* the filter passes: the closure takes its activity out of the container
\* (Index, activity.rs:169-177) and the handler body runs
LoopInvoke ==
    /\ pc = "loop" /\ rest # <<>>
    /\ Head(rest).id < Len(active)
    /\ Passes(Head(rest))
    /\ index(data, Head(rest).id) # "Missing activity"
    /\ fired' = Append(fired, Head(rest))
    /\ rest' = Tail(rest)
    /\ pc' = "handler"
    /\ UNCHANGED <<executing, engine, deferred, on_delete, tracker, next_ticket, cur, todo,
                   nreq, last_applied, hist, calls, replied>>
    /\ UNCHANGED hist2
    /\ UNCHANGED hist3

\* the filter rejects: the message is not delivered to this handler
LoopSkip ==
    /\ pc = "loop" /\ rest # <<>>
    /\ Head(rest).id < Len(active)
    /\ ~Passes(Head(rest))
    /\ rest' = Tail(rest)
    /\ UNCHANGED <<pc, executing, engine, deferred, on_delete, tracker, next_ticket, cur,
                   todo, fired, nreq, last_applied, hist, calls, replied>>
    /\ skipped' = skipped \cup {Head(rest).id}
    /\ UNCHANGED <<activated, del_log, abandoned>>
    /\ UNCHANGED hist3

\* the slot of the activity is empty (expect("Missing activity")), or its index is
\* out of the bounds of the container: the call panics
LoopPanic ==
    /\ pc = "loop" /\ rest # <<>>
    /\ \/ Head(rest).id >= Len(active)
       \/ /\ Passes(Head(rest))
          /\ index(data, Head(rest).id) = "Missing activity"
    /\ pc' = "panic"
    /\ UNCHANGED <<executing, engine, deferred, on_delete, tracker, next_ticket, disp,
                   nreq, last_applied, hist, calls, replied>>
    /\ UNCHANGED hist2
    /\ UNCHANGED hist3

\* the handler body returns to the loop
HandlerReturn ==
    /\ pc = "handler"
    /\ pc' = "loop"
    /\ UNCHANGED <<executing, engine, deferred, on_delete, tracker, next_ticket, disp,
                   nreq, last_applied, hist, calls, replied>>
    /\ UNCHANGED hist2
    /\ UNCHANGED hist3

\* every handler has been visited: the next deferred event is processed
LoopDone ==
    /\ pc = "loop" /\ rest = <<>> /\ todo = {}
    /\ pc' = "drain"
    /\ cur' = NoEvent
    /\ fired' = <<>>
    /\ UNCHANGED <<executing, engine, deferred, on_delete, tracker, next_ticket, todo, rest,
                   nreq, last_applied, hist, calls, replied>>
    /\ UNCHANGED hist2
    /\ UNCHANGED hist3

(* --------------------------- specifications ---------------------------- *)

Ids == Range(issued)

\* Every specification below is the engine with a repertoire of library calls for
\* the user code; the calls and the inputs are narrowed per specification so that
\* each one explores handlers that nest the calls its claims are about.

\* deferral: activities, subscriptions, domain writes and publishes, from top
\* level and from inside handlers
NextDefer ==
    \/ \E t \in Topics, i \in Ids : Within(MaxDefer) /\ Register(t, i, "ActiveOnly")
    \/ Within(MaxDefer) /\ NewActivity("a", 0, TRUE)
    \/ \E v \in Values : Within(MaxDefer) /\ WriteDomain(0, "T", v)
    \/ \E t \in Topics : Within(MaxDefer) /\ Publish(t)
    \/ ApplySubscription
    \/ ApplyDomainStore
    \/ ApplyFlush
    \/ StartBroadcast
    \/ DrainDone
    \/ LoopPickKey
    \/ LoopInvoke
    \/ HandlerReturn
    \/ LoopDone

SpecDefer == Init /\ [][NextDefer]_vars


\* delivery order and filters: activities that start active or inactive,
\* handlers with every filter on one topic, status changes
NextOrder ==
    \/ \E i \in Ids, f \in Filters : Within(MaxOrder) /\ Register("M", i, f)
    \/ \E st \in BOOLEAN : Within(MaxOrder) /\ NewActivity("a", 0, st)
    \/ Within(MaxOrder) /\ Publish("M")
    \/ \E i \in Ids, st \in BOOLEAN : Within(MaxOrder) /\ SetStatus(i, st)
    \/ ApplySubscription
    \/ ApplyFlush
    \/ StartBroadcast
    \/ ApplyLifecycle
    \/ DrainDone
    \/ LoopPickKey
    \/ LoopInvoke
    \/ LoopSkip
    \/ HandlerReturn
    \/ LoopDone

SpecOrder == Init /\ [][NextOrder]_vars

\* indices and deletion: activities with distinct payloads, on-delete hooks,
\* deletions, and broadcasts that reach deleted activities
NextIndex ==
    \/ \E i \in Ids : Within(MaxIndex) /\ Register("M", i, "ActiveOnly")
    \/ \E p \in Payloads : Within(MaxIndex) /\ NewActivity(p, 0, TRUE)
    \/ Within(MaxIndex) /\ Publish("M")
    \/ \E i \in Ids : Within(MaxIndex) /\ RegisterOnDelete(i)
    \/ \E i \in Ids : Within(MaxIndex) /\ Delete(i)
    \/ ApplySubscription
    \/ ApplyFlush
    \/ StartBroadcast
    \/ ApplyDelete
    \/ HookReturn
    \/ DrainDone
    \/ LoopPickKey
    \/ LoopInvoke
    \/ LoopPanic
    \/ HandlerReturn
    \/ LoopDone

SpecIndex == Init /\ [][NextIndex]_vars

\* request / response: requests, replies from top level and from handlers,
\* polls and abandoned futures
NextAwait ==
    \/ \E i \in Ids : Within(MaxAwait) /\ Register("M", i, "ActiveOnly")
    \/ Within(MaxAwait) /\ NewActivity("a", 0, TRUE)
    \/ Within(MaxAwait) /\ PublishAndAwait("M")
    \/ \E r \in 0..(next_ticket - 1), v \in Values : Within(MaxAwait) /\ PublishReply(r, v)
    \/ \E r \in DOMAIN tracker : Poll(r)
    \/ \E r \in DOMAIN tracker : Abandon(r)
    \/ ApplySubscription
    \/ ApplyFlush
    \/ StartBroadcast
    \/ StartReply
    \/ DrainDone
    \/ LoopPickKey
    \/ LoopInvoke
    \/ HandlerReturn
    \/ LoopDone

SpecAwait == Init /\ [][NextAwait]_vars

\* hooks and borrows: on-delete hooks registered from every context, deletions,
\* status changes, and the mutating calls made from handlers and from hooks
NextHook ==
    \/ \E i \in Ids : Within(MaxHook) /\ Register("M", i, "ActiveOnly")
    \/ Within(MaxHook) /\ NewActivity("a", 0, TRUE)
    \/ Within(MaxHook) /\ WriteDomain(0, "T", "v1")
    \/ Within(MaxHook) /\ Publish("M")
    \/ \E i \in Ids : Within(MaxHook) /\ SetStatus(i, FALSE)
    \/ \E i \in Ids : Within(MaxHook) /\ RegisterOnDelete(i)
    \/ \E i \in Ids : Within(MaxHook) /\ RegisterDomainedOnDelete(i)
    \/ \E i \in Ids : Within(MaxHook) /\ Delete(i)
    \/ ApplySubscription
    \/ ApplyDomainStore
    \/ ApplyFlush
    \/ StartBroadcast
    \/ ApplyLifecycle
    \/ ApplyDelete
    \/ HookReturn
    \/ DrainDone
    \/ LoopPickKey
    \/ LoopInvoke
    \/ LoopSkip
    \/ LoopPanic
    \/ HandlerReturn
    \/ LoopDone

SpecHook == Init /\ [][NextHook]_vars

\* publishes that reach nobody: two topics, activities that start active or
\* inactive, default-filter handlers, publishes from top level and from handlers
NextNoop ==
    \/ \E t \in Topics, i \in Ids : Within(MaxNoop) /\ Register(t, i, "ActiveOnly")
    \/ \E st \in BOOLEAN : Within(MaxNoop) /\ NewActivity("a", 0, st)
    \/ Within(MaxNoop) /\ WriteDomain(0, "T", "v1")
    \/ \E t \in Topics : Within(MaxNoop) /\ Publish(t)
    \/ ApplySubscription
    \/ ApplyDomainStore
    \/ ApplyFlush
    \/ StartBroadcast
    \/ DrainDone
    \/ LoopPickKey
    \/ LoopInvoke
    \/ LoopSkip
    \/ HandlerReturn
    \/ LoopDone

SpecNoop == Init /\ [][NextNoop]_vars

\* lifecycle: Enter and Leave handlers (delivered whatever the status), status
\* changes from top level and from handlers, and the mutating calls a lifecycle
\* handler makes
NextLife ==
    \/ \E t \in Lifecycle, i \in Ids : Within(MaxLife) /\ Register(t, i, "Always")
    \/ \E st \in BOOLEAN : Within(MaxLife) /\ NewActivity("a", 0, st)
    \/ Within(MaxLife) /\ WriteDomain(0, "T", "v1")
    \/ \E i \in Ids, st \in BOOLEAN : Within(MaxLife) /\ SetStatus(i, st)
    \/ ApplySubscription
    \/ ApplyDomainStore
    \/ ApplyFlush
    \/ ApplyLifecycle
    \/ DrainDone
    \/ LoopPickKey
    \/ LoopInvoke
    \/ HandlerReturn
    \/ LoopDone

SpecLife == Init /\ [][NextLife]_vars

\* domain bags: writes of every type to every domain, from top level and from
\* handlers
NextDomain ==
    \/ \E i \in Ids : Within(MaxDomain) /\ Register("M", i, "ActiveOnly")
    \/ Within(MaxDomain) /\ NewActivity("a", 0, TRUE)
    \/ \E d \in Domains, ty \in Types, v \in Values :
          Within(MaxDomain) /\ WriteDomain(d, ty, v)
    \/ Within(MaxDomain) /\ Publish("M")
    \/ ApplySubscription
    \/ ApplyDomainStore
    \/ ApplyFlush
    \/ StartBroadcast
    \/ DrainDone
    \/ LoopPickKey
    \/ LoopInvoke
    \/ HandlerReturn
    \/ LoopDone

SpecDomain == Init /\ [][NextDomain]_vars

\* staging: activities with distinct payloads and initial status, created at
\* top level and by handlers
NextStage ==
    \/ \E i \in Ids : Within(MaxStage) /\ Register("M", i, "Always")
    \/ \E p \in Payloads, st \in BOOLEAN : Within(MaxStage) /\ NewActivity(p, 0, st)
    \/ Within(MaxStage) /\ Publish("M")
    \/ ApplySubscription
    \/ ApplyFlush
    \/ StartBroadcast
    \/ DrainDone
    \/ LoopPickKey
    \/ LoopInvoke
    \/ HandlerReturn
    \/ LoopDone

SpecStage == Init /\ [][NextStage]_vars

\* the whole engine: every library call with every input
Next ==
    \/ \E t \in Topics \cup Lifecycle, i \in Ids, f \in Filters :
          Within(MaxCalls) /\ Register(t, i, f)
    \/ \E p \in Payloads, d \in Domains, st \in BOOLEAN :
          Within(MaxCalls) /\ NewActivity(p, d, st)
    \/ \E d \in Domains, ty \in Types, v \in Values : Within(MaxCalls) /\ WriteDomain(d, ty, v)
    \/ \E t \in Topics : Within(MaxCalls) /\ Publish(t)
    \/ \E i \in Ids, st \in BOOLEAN : Within(MaxCalls) /\ SetStatus(i, st)
    \/ \E i \in Ids : Within(MaxCalls) /\ RegisterOnDelete(i)
    \/ \E i \in Ids : Within(MaxCalls) /\ RegisterDomainedOnDelete(i)
    \/ \E i \in Ids : Within(MaxCalls) /\ Delete(i)
    \/ \E t \in Topics : Within(MaxCalls) /\ PublishAndAwait(t)
    \/ \E r \in 0..(next_ticket - 1), v \in Values : Within(MaxCalls) /\ PublishReply(r, v)
    \/ \E r \in DOMAIN tracker : Poll(r)
    \/ \E r \in DOMAIN tracker : Abandon(r)
    \/ ApplySubscription
    \/ ApplyDomainStore
    \/ ApplyFlush
    \/ StartBroadcast
    \/ StartReply
    \/ ApplyLifecycle
    \/ ApplyDelete
    \/ HookReturn
    \/ DrainDone
    \/ LoopPickKey
    \/ LoopInvoke
    \/ LoopSkip
    \/ LoopPanic
    \/ HandlerReturn
    \/ LoopDone

Spec == Init /\ [][Next]_vars

(* ------------------------------ claims --------------------------------- *)

core == <<data, active, domains, subs>>
InLoop == pc \in {"loop", "handler"}

\* the queue holds the requests in the order they were made, all of them later
\* than the request applied last
QueueInOrder ==
    \A j \in 1..Len(deferred) :
        /\ deferred[j].n > last_applied
        /\ j > 1 => deferred[j - 1].n < deferred[j].n

\* the handlers requested for a topic and an activity, in request order
Requested(t, a) ==
    LET sel == SelectSeq(reg_log, LAMBDA x : x.topic = t /\ x.h.id = a)
    IN  [j \in 1..Len(sel) |-> sel[j].h]

\* every requested registration is in the registry, in request order
RegistryApplied ==
    \A t \in AllTopics :
        /\ DOMAIN subs[t] = {reg_log[j].h.id : j \in {k \in 1..Len(reg_log) : reg_log[k].topic = t}}
        /\ \A a \in DOMAIN subs[t] : subs[t][a] = Requested(t, a)

\* every created activity is in the main container, at the index it was given
ActivitiesApplied ==
    /\ Len(data) = Len(issued)
    /\ inch_data = <<>>
    /\ \A k \in 1..Len(issued) : data[issued[k] + 1] \in {created[k], None}

\* every domain and type holds the value of the write requested last
WritesApplied ==
    \A d \in Domains, ty \in Types :
        wanted[d][ty] # None => read(domains, d, ty) = wanted[d][ty]

\* C1: an operation requested by a handler (registration, new_activity,
\* write_domain) leaves the registry, the main container and the domain bags as
\* they are while the handler loop of the broadcast runs; the operations wait on
\* the queue in request order and are applied in that order after the loop, so
\* that at idle all of them have taken effect.
C1_DeferredAfterLoop ==
    /\ [][InLoop => core' = core]_vars
    /\ [](QueueInOrder)
    /\ [](pc = "idle" => deferred = <<>> /\ RegistryApplied /\ ActivitiesApplied
                          /\ WritesApplied)

\* a handler has deferred operations of two kinds, and both wait on the queue
C1_Witness ==
    /\ pc = "handler"
    /\ \E j \in 1..Len(deferred) : deferred[j].kind = "Subscription"
    /\ \E j \in 1..Len(deferred) : deferred[j].kind = "DomainStore"
    /\ \E j \in 1..Len(deferred) : deferred[j].kind = "FlushInchoateActivities"


\* a step of a handler that publishes a message
PublishesInHandler ==
    /\ pc = "handler"
    /\ Len(deferred') = Len(deferred) + 1
    /\ deferred'[Len(deferred')].kind = "Broadcast"

C4_WriteAfterBroadcast ==
    /\ [][InLoop => domains' = domains]_vars
    /\ [][pc = "handler" /\ wanted' # wanted =>
            /\ Len(deferred') = Len(deferred) + 1
            /\ deferred'[Len(deferred')].kind = "DomainStore"]_vars
    /\ [](pc = "idle" => WritesApplied)

\* a handler has written a value that differs from the stored one, and a read
\* still returns the stored one
C4_Witness ==
    /\ pc = "handler"
    /\ \E j \in 1..Len(deferred) :
          /\ deferred[j].kind = "DomainStore"
          /\ read(domains, deferred[j].d, deferred[j].ty) \in Values
          /\ read(domains, deferred[j].d, deferred[j].ty) # deferred[j].v

\* some handler registered for the topic passes its filter
HasPassingHandler(t) ==
    \E a \in DOMAIN subs[t] : \E j \in 1..Len(subs[t][a]) :
        /\ a < Len(active)
        /\ FilterPasses(subs[t][a][j].filter, is_active(active, a))

ActiveNow(h) == active[h.id + 1]

C6_IndicesIncrease ==
    \A j, k \in 1..Len(issued) : j < k => issued[j] < issued[k]

\* activities were created at idle and by a handler, and one after a deletion
C6_Witness ==
    /\ staged_ids # {}
    /\ Range(issued) \ staged_ids # {}
    /\ \E j \in 1..Len(del_log) : del_log[j].at < Len(issued)


\* the payload new_activity was given for the index
PayloadOf(i) == created[CHOOSE k \in 1..Len(issued) : issued[k] = i]

\* C9: deleting an activity runs the on-delete hook registered for it once,
\* with the payload the activity was created with; the slot stays empty from
\* then on, an access to the id fails with "Missing activity", no handler runs
\* on it, and an access to any id yields the payload created for that id or
\* fails.
C9_DeleteOnceThenMissing ==
    /\ \A j \in 1..Len(hook_log) : hook_log[j][2] = PayloadOf(hook_log[j][1])
    /\ \A j, k \in 1..Len(hook_log) : j < k => hook_log[j][1] # hook_log[k][1]
    /\ \A j \in 1..Len(del_log) :
          /\ del_log[j].hook => \E m \in 1..Len(hook_log) : hook_log[m][1] = del_log[j].id
          /\ index(data, del_log[j].id) = "Missing activity"
    /\ \A i \in 0..(Len(data) - 1) : index(data, i) \in {"Missing activity", PayloadOf(i)}
    /\ pc = "handler" => index(data, fired[Len(fired)].id) = PayloadOf(fired[Len(fired)].id)

\* the hook of a deleted activity has run, a hook was registered for the id
\* again, and a broadcast that reached the id panicked
C9_Witness ==
    /\ pc = "panic"
    /\ Len(hook_log) = 1
    /\ hook_log[1][1] \in on_delete

LateReply ==
    /\ pc = "drain" /\ deferred # <<>>
    /\ Head(deferred).kind = "Reply" /\ Head(deferred).r \in abandoned
    /\ deferred' = Tail(deferred)

\* C11: abandoning the awaiting context removes the tracker entry of its request
\* and of no other; the entry never comes back, and a reply dispatched later for
\* that request id leaves the tracker as it is: no entry is created and no other
\* request is completed.
C11_AbandonedReplyDiscarded ==
    /\ [](abandoned \cap DOMAIN tracker = {})
    /\ [][abandoned' # abandoned =>
            \E r \in DOMAIN tracker :
                /\ abandoned' = abandoned \cup {r}
                /\ DOMAIN tracker' = DOMAIN tracker \ {r}
                /\ \A j \in DOMAIN tracker' : tracker'[j] = tracker[j]]_vars
    /\ [][LateReply => tracker' = tracker]_vars

\* the reply to an abandoned request is being dispatched while another request
\* is still pending
C11_Witness ==
    /\ pc = "loop"
    /\ cur.kind = "Reply"
    /\ cur.r \in abandoned
    /\ \E r \in DOMAIN tracker : tracker[r] = "Pending"

\* a storage cell is held: a handler loop, a handler or an on-delete hook runs
Held == pc \in {"loop", "handler", "hook"}

\* C12: register_on_delete and register_domained_on_delete called while the
\* activity container is held return the error, do not panic, register no hook
\* and leave the engine as it is; called while it is free they register the hook.
C12_UnavailableIsError ==
    [][rod_last' # rod_last =>
        IF Held
           THEN /\ rod_last'.result = "Err"
                /\ pc' = pc
                /\ on_delete' = on_delete
                /\ engine' = engine /\ deferred' = deferred /\ executing' = executing
                /\ tracker' = tracker
           ELSE /\ rod_last'.result = "Ok"
                /\ on_delete' = on_delete \cup {rod_last'.id}]_vars

\* a handler has called register_domained_on_delete and got the error
C12_Witness ==
    /\ pc = "handler"
    /\ rod_last.result = "Err"
    /\ rod_last.domained
    /\ rod_last.id \notin on_delete

C18_QuiescentAtIdle ==
    pc = "idle" =>
        /\ ~executing
        /\ deferred = <<>>
        /\ inch_data = <<>> /\ inch_active = <<>>
        /\ RegistryApplied /\ ActivitiesApplied /\ WritesApplied

\* the engine is idle again after a handler has staged an activity and deferred
\* a registration, and after an on-delete hook has run
C18_Witness ==
    /\ pc = "idle"
    /\ staged_ids # {}
    /\ \E j \in 1..Len(reg_log) : reg_log[j].h.late
    /\ hook_log # <<>>

NoMatchIn(sb, act, t) ==
    \A a \in DOMAIN sb[t] : \A j \in 1..Len(sb[t][a]) :
        ~FilterPasses(sb[t][a][j].filter, act[a + 1])

\* a publish made at top level that found no matching handler returns
ReturnsFromNoMatch ==
    /\ pc = "drain" /\ pc' = "idle"
    /\ pub_snap.kind = "Snap"
    /\ NoMatchIn(pub_snap.subs, pub_snap.active, pub_snap.topic)

\* the engine is as the publish made at top level found it
AsSnapshot ==
    /\ data' = pub_snap.data /\ active' = pub_snap.active
    /\ domains' = pub_snap.domains /\ subs' = pub_snap.subs
    /\ deferred' = pub_snap.deferred /\ executing' = pub_snap.executing

\* a handler publishes to a topic that has no matching handler
PublishesNoMatchInHandler ==
    /\ PublishesInHandler
    /\ NoMatchIn(subs, active, deferred'[Len(deferred')].topic)

StatusChangeApplied ==
    /\ pc = "drain" /\ deferred # <<>>
    /\ Head(deferred).kind = "LifecycleChange"
    /\ deferred' = Tail(deferred)

\* the handlers registered for a lifecycle topic and an activity
LifecycleHandlers(t, i) == IF i \in DOMAIN subs[t] THEN subs[t][i] ELSE <<>>

C15_BagHoldsLastWrite ==
    /\ [](pc = "idle" =>
            \A d \in Domains, ty \in Types : read(domains, d, ty) = wanted[d][ty])
    /\ [][\A d, e \in Domains, ty, u \in Types :
            /\ read(domains', d, ty) # read(domains, d, ty)
            /\ read(domains', e, u) # read(domains, e, u)
            => /\ <<d, ty>> = <<e, u>>
               /\ read(domains', d, ty) \in Values]_vars

\* at idle, a stored value has been replaced by a write that went through the
\* queue, while another domain keeps the value written to it
C15_Witness ==
    /\ pc = "idle"
    /\ <<0, "T", TRUE>> \in overwritten
    /\ read(domains, 0, "T") = "v2"
    /\ read(domains, 1, "T") = "v1"

\* number of FlushInchoateActivities events on the queue
FlushesQueued ==
    Cardinality({j \in 1..Len(deferred) : deferred[j].kind = "FlushInchoateActivities"})

\* C17: the k-th new_activity call returns index k - 1; the activity sits at
\* that index of the main container with its payload and initial status, or, as
\* long as it is staged, at that index minus the offset in the staging area;
\* every staged activity has a flush queued; at idle the staging area is empty
\* and the offset equals the length of the main container.
C17_StagedIndexIsFinalSlot ==
    /\ Len(issued) = Len(data) + Len(inch_data)
    /\ Len(active) = Len(data) /\ Len(inch_active) = Len(inch_data)
    /\ \A k \in 1..Len(issued) :
          LET i == issued[k] IN
          /\ i = k - 1
          /\ IF i < Len(data)
                THEN data[i + 1] = created[k] /\ active[i + 1] = created_active[k]
                ELSE /\ i \in staged_ids
                     /\ i - inch_offset + 1 \in 1..Len(inch_data)
                     /\ inch_data[i - inch_offset + 1] = created[k]
                     /\ inch_active[i - inch_offset + 1] = created_active[k]
    /\ Len(inch_data) <= FlushesQueued
    /\ pc = "idle" => inch_data = <<>> /\ inch_offset = Len(data)

\* at idle, two activities staged by a handler sit in the main container behind
\* one created at top level, one of them inactive with payload "b"
C17_Witness ==
    /\ pc = "idle"
    /\ Cardinality(staged_ids) >= 2
    /\ 0 \notin staged_ids
    /\ \E k \in 1..Len(issued) :
          /\ issued[k] \in staged_ids
          /\ created[k] = "b" /\ ~created_active[k]
          /\ data[issued[k] + 1] = "b" /\ ~active[issued[k] + 1]

\* C19: every handler in the registry is bound to an index of the main
\* container; a registration that waits on the queue for an activity that is
\* still staged has the flush of that activity ahead of it, and the handler loop
\* never reaches a handler whose index is beyond the main container.
C19_HandlersBoundToLiveIndex ==
    /\ \A t \in AllTopics : \A a \in DOMAIN subs[t] : a < Len(data)
    /\ \A j \in 1..Len(deferred) :
          deferred[j].kind = "Subscription" /\ deferred[j].h.id >= Len(data) =>
              \E m \in 1..(j - 1) : deferred[m].kind = "FlushInchoateActivities"
    /\ \A j \in 1..Len(rest) : rest[j].id < Len(data)
    /\ \A j \in 1..Len(fired) : fired[j].id < Len(data)

\* a handler runs that a handler registered for an activity a handler created
C19_Witness ==
    /\ pc = "handler"
    /\ fired[Len(fired)].id \in staged_ids
    /\ fired[Len(fired)].late
    /\ fired[Len(fired)].id = Len(data) - 1

====
